---- MODULE Spec2Model ----
(***************************************************************************)
(* ResembleTTSService (src/pipecat_resemble/resemble_pipecat_tts.py): one  *)
(* session object, the async generators its run_tts calls create, the      *)
(* websocket connections they open, the playback stream and stop().        *)
(* A step of a generator is the code it runs between two suspension points *)
(* (an await on the transport, or a yield to the consumer).                *)
(***************************************************************************)
EXTENDS Integers, Sequences, FiniteSets, TLC

\* ------------------------------------------------------------------ bounds
\* run_tts invocations (generator objects) on the one session
NumGens == 2
\* audio chunks the playback sink takes before the model stops feeding audio
MaxSink == 2
\* calls of stop()
MaxStops == 2
\* texts entered at the prompt of the standalone client
MaxRounds == 2

Gens == 1..NumGens

VARIABLES
    websocket,    \* self._websocket: 0 is None, else the connection's number
    request_id,   \* self._request_id
    conns,        \* every connection opened so far: [state, closes]
    stream,       \* self._stream / self._pyaudio: "open" or "released"
    releases,     \* times stop() ran the device's release calls
    sink,         \* payloads written to self._stream, in order
    stops,        \* calls of stop() so far
    pc,           \* per generator: where it is suspended
    at,           \* per generator: the yield it is suspended at
    io,           \* per generator: the connection its pending await is on
    request,      \* per generator: request["request_id"], 0 before it is built
    sent,         \* per generator: request_id of each request it sent
    data,         \* per generator: what the loop iteration read of its local `data`
    heard,        \* per generator: what its recv calls returned, stale and
                  \* unknown-type messages left out
    events,       \* per generator: frames handed to the consumer, in order
    raised,       \* per generator: an exception left the generator
    listen        \* tts-websocket.py: the state of the listen coroutine

vars == <<websocket, request_id, conns, stream, releases, sink, stops,
          pc, at, io, request, sent, data, heard, events, raised, listen>>

\* ----------------------------------------------------------------- frames
TTSStartedFrame == [kind |-> "Started", audio |-> <<>>, error |-> ""]
TTSStoppedFrame == [kind |-> "Stopped", audio |-> <<>>, error |-> ""]
TTSAudioRawFrame(audio) == [kind |-> "AudioChunk", audio |-> audio, error |-> ""]
ErrorFrame(error) == [kind |-> "Failed", audio |-> <<>>, error |-> error]

\* ------------------------------------------------------------- exceptions
ConnectionClosed == [cls |-> "ConnectionClosed", msg |-> "no close frame received or sent"]
Error(msg) == [cls |-> "Exception", msg |-> msg]
\* a BaseException that is no Exception: it is caught by neither handler
NoException == [cls |-> "None", msg |-> ""]

\* ------------------------------------------------------------ base64 text
\* A base64 text is a sequence of symbols: 0..63 the alphabet, 64 is '=',
\* 65 is a character outside the alphabet.
Pad == 64

RECURSIVE Sextets2Bytes(_)
Sextets2Bytes(s) ==
    IF Len(s) >= 4
    THEN << s[1] * 4 + (s[2] \div 16),
            (s[2] % 16) * 16 + (s[3] \div 4),
            (s[3] % 4) * 64 + s[4] >> \o Sextets2Bytes(SubSeq(s, 5, Len(s)))
    ELSE IF Len(s) = 3
    THEN << s[1] * 4 + (s[2] \div 16), (s[2] % 16) * 16 + (s[3] \div 4) >>
    ELSE IF Len(s) = 2
    THEN << s[1] * 4 + (s[2] \div 16) >>
    ELSE << >>

IsAlpha(c) == c < Pad
IsPad(c) == c = Pad

\* base64.b64decode(s) with validate=False: characters outside the alphabet
\* are dropped; a text whose data characters do not fill the last quad and
\* are not padded to it is "Incorrect padding".
B64Valid(s) ==
    LET d == Len(SelectSeq(s, IsAlpha))
        p == Len(SelectSeq(s, IsPad))
    IN  \/ d % 4 = 0
        \/ d % 4 = 2 /\ p >= 2
        \/ d % 4 = 3 /\ p >= 1

\* the text handed on as it came
b64undecoded(s) == s

b64decode(s) == Sextets2Bytes(SelectSeq(s, IsAlpha))

\* ---------------------------------------------------------- inbound data
\* json.loads(message): a dict (the keys it has are `keys`), a JSON value
\* that is no dict, or text that is no JSON.
None == -1
NoData == [json |-> "none", keys |-> {}, request_id |-> None, type |-> "",
           audio_content |-> <<>>, message |-> ""]

Contents == { <<16, 16, Pad, Pad>>,     \* "QQ==" : one byte 65
              <<16, 20, 8, Pad>>,       \* "QUI=" : bytes 65 66
              <<16, 65, 16>> }          \* "Q!Q"  : incorrect padding
Types == {"audio", "audio_end", "error", "ping"}
Texts == {"quota exceeded"}

Dict(keys, rid, type, content, message) ==
    [json |-> "dict", keys |-> keys, request_id |-> rid, type |-> type,
     audio_content |-> content, message |-> message]

Dicts ==
    { Dict(k, r, t, c, m) :
        k \in SUBSET {"request_id", "type", "audio_content", "message"},
        r \in 0..NumGens, t \in Types, c \in Contents, m \in Texts }

\* a key that is absent carries no value; audio_content is sent with audio
\* messages and message with error messages
WellFormed(d) ==
    /\ ("request_id" \notin d.keys) => d.request_id = 0
    /\ ("type" \notin d.keys) => d.type = "audio"
    /\ ("audio_content" \in d.keys) => ("type" \in d.keys /\ d.type = "audio")
    /\ ("audio_content" \notin d.keys) => d.audio_content = <<16, 16, Pad, Pad>>
    /\ ("message" \in d.keys) => ("type" \in d.keys /\ d.type = "error")

Messages ==
    { d \in Dicts : WellFormed(d) }
    \cup { [NoData EXCEPT !.json = "list"], [NoData EXCEPT !.json = "invalid"] }

\* data.get(key): the value, or None
Has(d, key) == key \in d.keys
GetRequestId(d) == IF Has(d, "request_id") THEN d.request_id ELSE None


\* ------------------------------------------------- the body of run_tts
\* What a stretch of the body ends in: the next loop iteration ("continue"),
\* a pending recv ("await"), a frame handed to the consumer ("yield"), an
\* exception thrown inside the try ("raise") or leaving the generator
\* ("propagate").
Outcome(kind, frame, where, exc) ==
    [kind |-> kind, frame |-> frame, at |-> where, exc |-> exc]
Continue == Outcome("continue", TTSStartedFrame, "", NoException)
Await == Outcome("await", TTSStartedFrame, "", NoException)
Yield(frame, where) == Outcome("yield", frame, where, NoException)
Raise(exc) == Outcome("raise", TTSStartedFrame, "", exc)
Propagate(exc) == Outcome("propagate", TTSStartedFrame, "", exc)

\* the comparison made only when the key is present
StaleIfPresent(d, rid) == Has(d, "request_id") /\ d.request_id # rid

\* line 107: if data.get("request_id") != self._request_id: continue
Stale(d, rid) == GetRequestId(d) # rid

\* data.get("message") with the default left out
ErrorMsgNoDefault(d) == IF Has(d, "message") THEN d.message ELSE "None"

\* line 121: data.get("message", "Unknown error")
ErrorMsg(d) == IF Has(d, "message") THEN d.message ELSE "Unknown error"

\* lines 120-123: the frame of an error message
ApiError(d) == ErrorFrame("API Error: " \o ErrorMsg(d))

\* an else branch that reports the type it does not know
OtherTypeFatal(d) == Yield(ErrorFrame("Unknown message type: " \o d.type), "error")

\* lines 110-123: the if/elif chain has no else; a type that is none of
\* the three falls through to the end of the iteration
OtherType(d) == Continue

\* lines 105-123: one iteration of the receive loop on message d, with
\* self._request_id = rid; writeOk is whether self._stream.write succeeds.
Dispatch(d, rid, writeOk) ==
    IF d.json = "invalid" THEN Raise(Error("Expecting value: line 1 column 1 (char 0)"))
    ELSE IF d.json = "list" THEN Raise(Error("'list' object has no attribute 'get'"))
    ELSE IF Stale(d, rid) THEN Continue
    ELSE IF ~Has(d, "type") THEN Raise(Error("'type'"))
    ELSE IF d.type = "audio" THEN
        IF ~Has(d, "audio_content") THEN Raise(Error("'audio_content'"))
        ELSE IF ~B64Valid(d.audio_content) THEN Raise(Error("Incorrect padding"))
        ELSE IF ~writeOk THEN Raise(Error("Stream closed"))
        ELSE Yield(TTSAudioRawFrame(b64decode(d.audio_content)), "audio")
    ELSE IF d.type = "audio_end" THEN Yield(TTSStoppedFrame, "stopped")
    ELSE IF d.type = "error" THEN Yield(ApiError(d), "error")
    ELSE OtherType(d)

\* the keys of d an iteration reads: request_id alone when d is discarded
Seen(d, rid) ==
    IF d.json = "dict" /\ Stale(d, rid)
    THEN [NoData EXCEPT !.json = "dict", !.keys = d.keys \cap {"request_id"},
                        !.request_id = GetRequestId(d)]
    ELSE d

\* the write placed before the request_id comparison
WritesUnchecked(d, rid) ==
    /\ d.json = "dict"
    /\ Has(d, "type") /\ d.type = "audio"
    /\ Has(d, "audio_content") /\ B64Valid(d.audio_content)

\* line 113: the iteration writes to the playback stream
Writes(d, rid) ==
    /\ d.json = "dict"
    /\ ~Stale(d, rid)
    /\ Has(d, "type") /\ d.type = "audio"
    /\ Has(d, "audio_content") /\ B64Valid(d.audio_content)

\* the try with its first except clause alone
ExceptClosedOnly(exc) ==
    IF exc.cls = "ConnectionClosed"
    THEN Yield(ErrorFrame("Connection closed unexpectedly"), "handler")
    ELSE Propagate(exc)

\* the try with its second except clause alone
ExceptGeneric(exc) ==
    IF exc.cls \in {"ConnectionClosed", "Exception"}
    THEN Yield(ErrorFrame(exc.msg), "handler")
    ELSE Propagate(exc)

\* lines 125-129: the except clauses of the try
Except(exc) ==
    IF exc.cls = "ConnectionClosed"
    THEN Yield(ErrorFrame("Connection closed unexpectedly"), "handler")
    ELSE IF exc.cls = "Exception"
    THEN Yield(ErrorFrame(exc.msg), "handler")
    ELSE Propagate(exc)

Resolve(o) == IF o.kind = "raise" THEN Except(o.exc) ELSE o

\* a try inside the loop whose handler goes on to the next message
RunIgnoring(o) ==
    IF o.kind \in {"raise", "continue"} THEN Await ELSE o

\* the body runs from outcome o to its next suspension point: `continue`
\* (and the end of an iteration) leads to line 104, await self._websocket.recv()
Run(o) ==
    LET r == Resolve(o)
    IN  IF r.kind = "continue" THEN Await ELSE r

\* a finally that leaves the counter alone
FinallyKeeps(rid) == rid

\* lines 130-131: finally
Finally(rid) == 0

\* the generator g is left suspended at (or finished by) outcome r
Commit(g, r) ==
    /\ pc' = [pc EXCEPT ![g] = CASE r.kind = "await" -> "receiving"
                                 [] r.kind = "yield" -> "yielded"
                                 [] OTHER -> "done"]
    /\ at' = [at EXCEPT ![g] = IF r.kind = "yield" THEN r.at ELSE ""]
    /\ io' = [io EXCEPT ![g] = IF r.kind = "await" THEN websocket ELSE 0]
    /\ events' = [events EXCEPT ![g] = IF r.kind = "yield" THEN Append(@, r.frame) ELSE @]
    /\ raised' = [raised EXCEPT ![g] = @ \/ r.kind = "propagate"]
    /\ request_id' = IF r.kind = "propagate" THEN Finally(request_id) ELSE request_id


\* ------------------------------------------------------------------ state
\* tts-websocket.py lines 15-22: the module has opened its output stream and
\* listen(uri) awaits websockets.connect
ListenStart ==
    [pc |-> "connecting", round |-> 0, first_byte |-> FALSE, stream |-> << >>,
     data |-> NoData, wrfail |-> FALSE]

\* lines 50-61: __init__
Init ==
    /\ websocket = 0
    /\ request_id = 0
    /\ conns = << >>
    /\ stream = "open"
    /\ releases = 0
    /\ sink = << >>
    /\ stops = 0
    /\ pc = [g \in Gens |-> "init"]
    /\ at = [g \in Gens |-> ""]
    /\ io = [g \in Gens |-> 0]
    /\ request = [g \in Gens |-> 0]
    /\ sent = [g \in Gens |-> << >>]
    /\ data = [g \in Gens |-> NoData]
    /\ heard = [g \in Gens |-> << >>]
    /\ events = [g \in Gens |-> << >>]
    /\ raised = [g \in Gens |-> FALSE]
    /\ listen = ListenStart

Session == <<websocket, conns, stream, releases, sink, stops>>

\* lines 66-76: run_tts(text) is called and pulled for the first time; the
\* body runs to `await websockets.connect(...)`.  Generators are numbered
\* in the order of their calls.
Call(g) ==
    /\ pc[g] = "init"
    /\ g > 1 => pc[g - 1] # "init"
    /\ pc' = [pc EXCEPT ![g] = "connecting"]
    /\ UNCHANGED <<Session, request_id, at, io, request, sent, data, heard, events, raised>>
    /\ UNCHANGED listen

\* lines 71-99: the connection is made; self._websocket is assigned, the
\* counter incremented, the request built and its send awaited.
ConnectOk(g) ==
    /\ pc[g] = "connecting"
    /\ LET c == Len(conns) + 1
       IN  /\ conns' = Append(conns, [state |-> "open", closes |-> 0])
           /\ websocket' = c
           /\ io' = [io EXCEPT ![g] = c]
    /\ request_id' = request_id + 1
    /\ request' = [request EXCEPT ![g] = request_id + 1]
    /\ pc' = [pc EXCEPT ![g] = "sending"]
    /\ UNCHANGED <<stream, releases, sink, stops, at, sent, data, heard, events, raised>>
    /\ UNCHANGED listen

\* lines 71-76, 127-129: websockets.connect raises
ConnectFail(g) ==
    /\ pc[g] = "connecting"
    /\ Commit(g, Resolve(Raise(Error("server rejected WebSocket connection: HTTP 401"))))
    /\ UNCHANGED <<Session, request, sent, data, heard>>
    /\ UNCHANGED listen

\* the send followed by the loop, with no frame yielded
OnSentSilent == Continue

\* lines 100-101: after the send, yield TTSStartedFrame()
OnSent == Yield(TTSStartedFrame, "started")

\* lines 99-101: the send completes; TTSStartedFrame is yielded
SendOk(g) ==
    /\ pc[g] = "sending"
    /\ conns[io[g]].state = "open"
    /\ sent' = [sent EXCEPT ![g] = Append(@, request[g])]
    /\ Commit(g, Run(OnSent))
    /\ UNCHANGED <<Session, request, data, heard>>
    /\ UNCHANGED listen

\* lines 99, 125-126: the connection is closed (by the peer now, or already
\* by stop()) and send raises ConnectionClosed
SendFail(g) ==
    /\ pc[g] = "sending"
    /\ conns' = [conns EXCEPT ![io[g]].state = "closed"]
    /\ Commit(g, Resolve(Raise(ConnectionClosed)))
    /\ UNCHANGED <<websocket, stream, releases, sink, stops, request, sent, data, heard>>
    /\ UNCHANGED listen

\* the consumer pulls the next frame: after Started or an audio frame the
\* loop goes on to recv (lines 103-104); after Stopped or an API error the
\* loop breaks (lines 118, 123), after a handler's frame the handler ends,
\* and finally runs (lines 130-131).
AfterYieldNoBreak(where) ==
    IF where \in {"started", "audio", "stopped"} THEN Continue
    ELSE Outcome("return", TTSStartedFrame, "", NoException)

AfterYield(where) ==
    IF where \in {"started", "audio"} THEN Continue
    ELSE Outcome("return", TTSStartedFrame, "", NoException)

Pull(g) ==
    /\ pc[g] = "yielded"
    /\ LET r == Run(AfterYield(at[g]))
       IN  IF r.kind = "return"
           THEN /\ pc' = [pc EXCEPT ![g] = "done"]
                /\ at' = [at EXCEPT ![g] = ""]
                /\ request_id' = Finally(request_id)
                /\ data' = [data EXCEPT ![g] = NoData]
                /\ UNCHANGED <<io, events, raised>>
           ELSE /\ Commit(g, r)
                /\ UNCHANGED data
    /\ UNCHANGED <<Session, request, sent, heard>>
    /\ UNCHANGED listen

\* line 104: what self._websocket.recv() did other than return a message
RecvClosedMark == [NoData EXCEPT !.json = "closed"]
RecvFailMark == [NoData EXCEPT !.json = "raised"]

\* the returned messages kept in heard: every one but the stale dicts and
\* the dicts for the active request whose type is none of the three handled
Kept(m, rid) ==
    \/ m.json # "dict"
    \/ /\ GetRequestId(m) = rid
       /\ Has(m, "type") => m.type \in {"audio", "audio_end", "error"}

\* an entry of heard: the message without its request_id (the active one
\* for a dict that is kept), and whether its audio was written to the stream
Hear(h, m, written) ==
    Append(h, [msg |-> [m EXCEPT !.request_id = None, !.keys = @ \ {"request_id"}],
               written |-> written])

\* lines 104-123: recv returns message m and one loop iteration runs
RecvMsg(g, m, writeOk) ==
    /\ pc[g] = "receiving"
    /\ conns[io[g]].state = "open"
    /\ writeOk => stream = "open"
    /\ Writes(m, request_id) => Len(sink) < MaxSink
    /\ data' = [data EXCEPT ![g] = Seen(m, request_id)]
    /\ heard' = [heard EXCEPT ![g] =
                    IF Kept(m, request_id)
                    THEN Hear(@, m, Writes(m, request_id) /\ writeOk) ELSE @]
    /\ sink' = IF Writes(m, request_id) /\ writeOk
               THEN Append(sink, b64decode(m.audio_content)) ELSE sink
    /\ Commit(g, Run(Dispatch(m, request_id, writeOk)))
    /\ UNCHANGED <<websocket, conns, stream, releases, stops, request, sent>>
    /\ UNCHANGED listen

\* lines 104, 125-126: the connection is closed and recv raises
RecvClosed(g) ==
    /\ pc[g] = "receiving"
    /\ conns' = [conns EXCEPT ![io[g]].state = "closed"]
    /\ heard' = [heard EXCEPT ![g] = Hear(@, RecvClosedMark, FALSE)]
    /\ Commit(g, Resolve(Raise(ConnectionClosed)))
    /\ UNCHANGED <<websocket, stream, releases, sink, stops, request, sent, data>>
    /\ UNCHANGED listen

\* lines 104, 127-129: recv raises another exception (a second recv on a
\* connection that has one pending, a frame over the size limit)
RecvFail(g) ==
    /\ pc[g] = "receiving"
    /\ conns[io[g]].state = "open"
    /\ Commit(g, Resolve(Raise(Error("cannot call recv while another coroutine is already waiting for the next message"))))
    /\ heard' = [heard EXCEPT ![g] = Hear(@, RecvFailMark, FALSE)]
    /\ UNCHANGED <<Session, request, sent, data>>
    /\ UNCHANGED listen

\* lines 169-175: the consumer stops pulling and drops the generator while
\* it is suspended at a yield
Abandon(g) ==
    /\ pc[g] = "yielded"
    /\ pc' = [pc EXCEPT ![g] = "abandoned"]
    /\ UNCHANGED <<Session, request_id, at, io, request, sent, data, heard, events, raised>>
    /\ UNCHANGED listen

\* lines 130-131: the dropped generator is closed: GeneratorExit is thrown
\* at its yield, which no except clause catches, and finally runs
Finalise(g) ==
    /\ pc[g] = "abandoned"
    /\ pc' = [pc EXCEPT ![g] = "done"]
    /\ at' = [at EXCEPT ![g] = ""]
    /\ data' = [data EXCEPT ![g] = NoData]
    /\ request_id' = Finally(request_id)
    /\ UNCHANGED <<Session, io, request, sent, heard, events, raised>>
    /\ UNCHANGED listen

\* lines 133-143: stop().  self._websocket, self._stream and self._pyaudio
\* stay set, so every call runs the release calls again.
Stop ==
    /\ stops < MaxStops
    /\ stops' = stops + 1
    /\ conns' = IF websocket # 0
                THEN [conns EXCEPT ![websocket] =
                         [state |-> "closed", closes |-> @.closes + 1]]
                ELSE conns
    /\ stream' = "released"
    /\ releases' = releases + 1
    /\ UNCHANGED <<websocket, sink, request_id, pc, at, io, request, sent, data, heard, events, raised>>
    /\ UNCHANGED listen

Next ==
    \/ \E g \in Gens : Call(g)
    \/ \E g \in Gens : ConnectOk(g)
    \/ \E g \in Gens : ConnectFail(g)
    \/ \E g \in Gens : SendOk(g)
    \/ \E g \in Gens : SendFail(g)
    \/ \E g \in Gens : Pull(g)
    \/ \E g \in Gens, m \in Messages, writeOk \in BOOLEAN : RecvMsg(g, m, writeOk)
    \/ \E g \in Gens : RecvClosed(g)
    \/ \E g \in Gens : RecvFail(g)
    \/ \E g \in Gens : Abandon(g)
    \/ \E g \in Gens : Finalise(g)
    \/ Stop

Spec == Init /\ [][Next]_vars

\* lines 166-180: one consumer, as in test_resemble_tts: run_tts is called
\* again only when the consumer has finished with (or dropped) the earlier
\* generators.
Quiet(g) == pc[g] \in {"init", "done", "abandoned"}

CallNext(g) == Call(g) /\ \A h \in Gens \ {g} : Quiet(h)

NextSeq ==
    \/ \E g \in Gens : CallNext(g)
    \/ \E g \in Gens : ConnectOk(g)
    \/ \E g \in Gens : ConnectFail(g)
    \/ \E g \in Gens : SendOk(g)
    \/ \E g \in Gens : SendFail(g)
    \/ \E g \in Gens : Pull(g)
    \/ \E g \in Gens, m \in Messages, writeOk \in BOOLEAN : RecvMsg(g, m, writeOk)
    \/ \E g \in Gens : RecvClosed(g)
    \/ \E g \in Gens : RecvFail(g)
    \/ \E g \in Gens : Abandon(g)
    \/ \E g \in Gens : Finalise(g)
    \/ Stop

SpecSeq == Init /\ [][NextSeq]_vars


\* ------------------------------------------- tts-websocket.py: listen(uri)
Pipecat == <<websocket, request_id, conns, stream, releases, sink, stops,
             pc, at, io, request, sent, data, heard, events, raised>>

Break == Outcome("break", TTSStartedFrame, "", NoException)

\* lines 45-56: the body of the inner try on message d; writeOk is whether
\* stream.write succeeds
ListenDispatch(d, writeOk) ==
    IF d.json = "invalid" THEN Raise(Error("Expecting value: line 1 column 1 (char 0)"))
    ELSE IF d.json = "list" THEN Raise(Error("list indices must be integers or slices, not str"))
    ELSE IF ~Has(d, "type") THEN Raise(Error("'type'"))
    ELSE IF d.type = "audio" THEN
        IF ~Has(d, "audio_content") THEN Raise(Error("'audio_content'"))
        ELSE IF ~B64Valid(d.audio_content) THEN Raise(Error("Incorrect padding"))
        ELSE IF ~writeOk THEN Raise(Error("Stream closed"))
        ELSE Continue
    ELSE IF d.type = "audio_end" THEN Break
    ELSE Continue

\* line 48: the iteration decodes audio_content
ListenDecodes(d) ==
    /\ d.json = "dict"
    /\ Has(d, "type") /\ d.type = "audio"
    /\ Has(d, "audio_content") /\ B64Valid(d.audio_content)

\* the keys of d the iteration reads
ListenSeen(d) ==
    [d EXCEPT !.keys = @ \cap {"type", "audio_content"},
              !.request_id = None, !.message = ""]

\* a handler that lets the exception go
ListenExceptRaises(exc) == Propagate(exc)

\* lines 58-59: except Exception: print(...)
ListenExcept(exc) == Continue

ListenResolve(o) == IF o.kind = "raise" THEN ListenExcept(o.exc) ELSE o

\* line 22: the connection is made; the outer loop starts with a ping
ListenConnectOk ==
    /\ listen.pc = "connecting"
    /\ listen' = [listen EXCEPT !.pc = "pinging"]
    /\ UNCHANGED Pipecat

\* line 22: websockets.connect raises, and the exception leaves listen
ListenConnectFail ==
    /\ listen.pc = "connecting"
    /\ listen' = [listen EXCEPT !.pc = "raised"]
    /\ UNCHANGED Pipecat

\* lines 24-25: the ping is sent and input() prompts for the text
ListenPingOk ==
    /\ listen.pc = "pinging"
    /\ listen' = [listen EXCEPT !.pc = "prompt"]
    /\ UNCHANGED Pipecat

\* line 24: the connection is closed and ping raises ConnectionClosed
ListenPingFail ==
    /\ listen.pc = "pinging"
    /\ listen' = [listen EXCEPT !.pc = "raised"]
    /\ UNCHANGED Pipecat

\* lines 25-36: a text is entered, the request is built and its send awaited
ListenInput ==
    /\ listen.pc = "prompt"
    /\ listen.round < MaxRounds
    /\ listen' = [listen EXCEPT !.pc = "sending", !.round = @ + 1]
    /\ UNCHANGED Pipecat

\* lines 36-42: the send completes; first_byte is reset and recv awaited
ListenSendOk ==
    /\ listen.pc = "sending"
    /\ listen' = [listen EXCEPT !.pc = "receiving", !.first_byte = FALSE,
                                !.data = NoData, !.wrfail = FALSE]
    /\ UNCHANGED Pipecat

\* line 36: send raises ConnectionClosed
ListenSendFail ==
    /\ listen.pc = "sending"
    /\ listen' = [listen EXCEPT !.pc = "raised"]
    /\ UNCHANGED Pipecat

\* lines 42-59: recv returns message m and one iteration of the inner loop
\* runs; break leads to the ping of line 24
ListenRecvMsg(m, writeOk) ==
    /\ listen.pc = "receiving"
    /\ ListenDecodes(m) => Len(listen.stream) < MaxSink
    /\ LET r == ListenResolve(ListenDispatch(m, writeOk))
       IN  listen' = [listen EXCEPT
               !.pc = CASE r.kind = "break" -> "pinging"
                        [] r.kind = "propagate" -> "raised"
                        [] OTHER -> "receiving",
               !.first_byte = @ \/ ListenDecodes(m),
               !.stream = IF ListenDecodes(m) /\ writeOk
                          THEN Append(@, b64decode(m.audio_content)) ELSE @,
               !.data = ListenSeen(m),
               !.wrfail = ListenDecodes(m) /\ ~writeOk]
    /\ UNCHANGED Pipecat

\* line 42: the connection is closed; recv is outside the try, so
\* ConnectionClosed leaves listen
ListenRecvClosed ==
    /\ listen.pc = "receiving"
    /\ listen' = [listen EXCEPT !.pc = "raised", !.data = RecvClosedMark,
                                !.wrfail = FALSE]
    /\ UNCHANGED Pipecat

NextListen ==
    \/ ListenConnectOk
    \/ ListenConnectFail
    \/ ListenPingOk
    \/ ListenPingFail
    \/ ListenInput
    \/ ListenSendOk
    \/ ListenSendFail
    \/ \E m \in Messages, writeOk \in BOOLEAN : ListenRecvMsg(m, writeOk)
    \/ ListenRecvClosed

SpecListen == Init /\ [][NextListen]_vars


\* ================================================================ claims
Terminal(f) == f.kind \in {"Stopped", "Failed"}
Last(e) == e[Len(e)]
Idle(g) == pc[g] \in {"init", "done"}
Open == {c \in DOMAIN conns : conns[c].state = "open"}
ForActive(m) == m.json = "dict" /\ GetRequestId(m) = request_id

\* C1 as stated: every event sequence starts with Started, whatever the
\* transport does; nothing precedes it.
C1_StartsWithStarted ==
    \A g \in Gens : events[g] # << >> => events[g][1].kind = "Started"

\* C1 amended: Started occurs at most once and only as the first event,
\* the sequence starts with it once connect and send have succeeded, and a
\* sequence that does not start with it is one Failed event alone.
C1_StartedFirstOrFailedAlone ==
    \A g \in Gens :
        LET e == events[g]
        IN  /\ \A i \in DOMAIN e : e[i].kind = "Started" => i = 1
            /\ (e # << >> /\ e[1].kind # "Started") => (Len(e) = 1 /\ e[1].kind = "Failed")
            /\ sent[g] # << >> => (e # << >> /\ e[1] = TTSStartedFrame)

C1_Witness ==
    \E g, h \in Gens :
        /\ Len(events[g]) >= 2
        /\ events[g][1].kind = "Started" /\ events[g][2].kind = "AudioChunk"
        /\ pc[h] = "done" /\ Len(events[h]) = 1 /\ events[h][1].kind = "Failed"

\* C2: at most one terminal event (Stopped or Failed) per invocation, and
\* no event of any kind after it: a terminal event is the last event in
\* every state.
C2_TerminalIsLast ==
    \A g \in Gens :
        \A i \in DOMAIN events[g] : Terminal(events[g][i]) => i = Len(events[g])

C2_Witness ==
    \E g, h \in Gens :
        /\ g # h
        /\ pc[g] = "done" /\ Len(events[g]) = 3 /\ Last(events[g]).kind = "Stopped"
        /\ pc[h] = "done" /\ Len(events[h]) = 2 /\ Last(events[h]).kind = "Failed"

\* the step is generator g receiving message m
Stepped(g) ==
    /\ pc[g] = "receiving"
    /\ stops' = stops
    /\ \A h \in Gens \ {g} : pc'[h] = pc[h] /\ data'[h] = data[h] /\ events'[h] = events[h]

Received(g, m, w) ==
    data'[g] = Seen(m, request_id) /\ RecvMsg(g, m, w)

\* the step is a failure inside generator g's try block (a message that
\* makes the iteration raise is kept whole in data)
Failing(g) ==
    \/ ConnectFail(g)
    \/ SendFail(g)
    \/ RecvClosed(g)
    \/ RecvFail(g)
    \/ /\ Stepped(g)
       /\ \E m \in {data'[g]} \cap Messages, w \in BOOLEAN :
             Dispatch(m, request_id, w).kind = "raise" /\ Received(g, m, w)

C3_Surfaced(g) ==
    /\ Len(events'[g]) = Len(events[g]) + 1
    /\ SubSeq(events'[g], 1, Len(events[g])) = events[g]
    /\ Last(events'[g]).kind = "Failed"
    /\ pc'[g] = "yielded"
    /\ Len(conns') = Len(conns)
    /\ sent' = sent

C3_Ended(g) ==
    /\ events'[g] = events[g]
    /\ sent'[g] = sent[g]
    /\ pc'[g] \in {"yielded", "abandoned", "done"}

C3_State ==
    \A g \in Gens :
        /\ ~raised[g]
        /\ Len(sent[g]) <= 1
        /\ \A i \in DOMAIN events[g] : events[g][i].kind = "Failed" => i = Len(events[g])

\* C3: every failure in an invocation (connect, send, connection lost,
\* handling a message, writing to the sink) appends exactly one Failed
\* event, which stays the last one; the generator then ends, no exception
\* leaves it, and it neither connects nor sends again.
C3_FailureIsOneFailed ==
    /\ []C3_State
    /\ [][\A g \in Gens :
            /\ C3_Surfaced(g) \/ ~Failing(g)
            /\ (events[g] # << >> /\ Last(events[g]).kind = "Failed") => C3_Ended(g)]_vars

C3_Witness ==
    \E g, h \in Gens :
        /\ pc[g] = "done" /\ Len(events[g]) = 3
        /\ events[g][2].kind = "AudioChunk" /\ events[g][3] = ErrorFrame("Connection closed unexpectedly")
        /\ pc[h] = "yielded" /\ data[h].json = "invalid" /\ Last(events[h]).kind = "Failed"

C4_Discarded(g) ==
    /\ events' = events
    /\ sink' = sink
    /\ request_id' = request_id
    /\ websocket' = websocket /\ conns' = conns
    /\ pc'[g] = "receiving" /\ io'[g] = websocket

C4_ReceivedStale(g) ==
    /\ Stepped(g)
    /\ \E m \in Messages, w \in BOOLEAN :
          m.json = "dict" /\ GetRequestId(m) # request_id /\ Received(g, m, w)

\* C4: in the receive loop a message whose request_id is not the active
\* one (or is absent) is discarded, whatever its type: no event, nothing
\* written to the sink, counter and connection unchanged, and the loop waits
\* for the next message.
C4_StaleIsDiscarded ==
    [][\A g \in Gens : C4_Discarded(g) \/ ~C4_ReceivedStale(g)]_vars

C4_Witness ==
    \E g \in Gens :
        /\ \A h \in Gens \ {g} : Idle(h)
        /\ pc[g] = "receiving" /\ Len(events[g]) = 2 /\ Last(events[g]).kind = "AudioChunk"
        /\ request_id = sent[g][1]
        /\ data[g].json = "dict" /\ data[g].keys = {"request_id"}
        /\ data[g].request_id # request_id

\* C5 as stated: the request id of a terminated invocation is never the
\* active id during the receive loop of a later invocation.
C5_TerminatedIdNeverActive ==
    \A g, h \in Gens :
        (g < h /\ pc[g] = "done" /\ sent[g] # << >> /\ pc[h] = "receiving")
        => sent[g][1] # request_id

\* C6: the counter is zero whenever no invocation is in progress, and every
\* step that ends an invocation (Stopped, Failed, or the close of an
\* abandoned generator) leaves it zero.
C6_CounterZeroWhenIdle ==
    /\ []((\A g \in Gens : Idle(g)) => request_id = 0)
    /\ [][\A g \in Gens : (pc[g] # "done" /\ pc'[g] = "done") => request_id' = 0]_vars

C6_Witness ==
    \E g, h \in Gens :
        /\ g # h /\ request_id = 0
        /\ pc[g] = "done" /\ Len(events[g]) = 2 /\ events[g][2].kind = "AudioChunk"
        /\ pc[h] = "done" /\ Len(events[h]) = 1 /\ events[h][1].kind = "Failed"

\* C7 as stated: a second or later stop() performs no release action on a
\* connection or device that is already released.
C7_StopReleasesOnce ==
    /\ releases <= 1
    /\ \A c \in DOMAIN conns : conns[c].closes <= 1

\* C8 as stated: after run_tts invocations that have all ended or been
\* abandoned, stop() leaves every connection the session opened closed,
\* and the device released, each exactly once.
C8_StopClosesEverything ==
    [][(stops = 0 /\ stops' = 1 /\ \A g \in Gens : Quiet(g))
       => /\ \A c \in DOMAIN conns' : conns'[c].state = "closed" /\ conns'[c].closes <= 1
          /\ stream' = "released" /\ releases' = 1]_vars

\* C9 as stated: run_tts connects only when the session has no open
\* connection, so a call made when no other invocation is being consumed
\* reuses the open connection and at most one connection is open.
C9_ConnectOnlyWhenNoneOpen ==
    [][\A g \in Gens :
          (pc[g] = "connecting" /\ pc'[g] = "sending"
           /\ \A h \in Gens \ {g} : Quiet(h))
          => /\ (websocket # 0 /\ websocket \in Open) => conns' = conns
             /\ Cardinality({c \in DOMAIN conns' : conns'[c].state = "open"}) <= 1]_vars

C10_ErrorText(m) == IF Has(m, "message") THEN m.message ELSE "Unknown error"

\* C10 as stated: an error message for the active request received right
\* after Started makes the sequence [Started, Failed(m)], with m the
\* service's message itself, or "Unknown error" when it has none.
C10_FailedCarriesMessage ==
    [][\A g \in Gens : (Stepped(g) /\ events[g] = <<TTSStartedFrame>>) =>
        \A m \in Messages, w \in BOOLEAN :
          (ForActive(m) /\ Has(m, "type") /\ m.type = "error" /\ Received(g, m, w))
          => events'[g] = <<TTSStartedFrame, ErrorFrame(C10_ErrorText(m))>>]_vars

\* C10 amended: the Failed event carries "API Error: " followed by the
\* service's message (or by "Unknown error"), it is a terminal event, and
\* the message is one carrying the active request id.
C10_FailedCarriesApiError ==
    [][\A g \in Gens : (Stepped(g) /\ events[g] = <<TTSStartedFrame>>) =>
        \A m \in Messages, w \in BOOLEAN :
          (ForActive(m) /\ Has(m, "type") /\ m.type = "error" /\ Received(g, m, w))
          => /\ events'[g] = <<TTSStartedFrame,
                               ErrorFrame("API Error: " \o C10_ErrorText(m))>>
             /\ pc'[g] = "yielded" /\ AfterYield(at'[g]).kind = "return"]_vars

C10_Witness ==
    \E g, h \in Gens :
        /\ pc[g] = "done"
        /\ events[g] = <<TTSStartedFrame, ErrorFrame("API Error: quota exceeded")>>
        /\ pc[h] = "done"
        /\ events[h] = <<TTSStartedFrame, ErrorFrame("API Error: Unknown error")>>

\* the bytes the payload texts stand for (RFC 4648): "QQ==" is "A", "QUI="
\* is "AB"
C11_Bytes(c) ==
    CASE c = <<16, 16, Pad, Pad>> -> <<65>>
      [] c = <<16, 20, 8, Pad>> -> <<65, 66>>
      [] OTHER -> << >>

\* an entry of heard is an audio message that decoded and was played
C11_IsAudio(e) ==
    /\ e.msg.json = "dict" /\ Has(e.msg, "type") /\ e.msg.type = "audio"
    /\ Has(e.msg, "audio_content")
    /\ e.msg.audio_content \in {<<16, 16, Pad, Pad>>, <<16, 20, 8, Pad>>}
    /\ e.written

C11_IsEnd(e) ==
    e.msg.json = "dict" /\ Has(e.msg, "type") /\ e.msg.type = "audio_end"

C11_Chunks(h) ==
    [i \in 1..Len(h) |-> TTSAudioRawFrame(C11_Bytes(h[i].msg.audio_content))]

\* C11: on the success path (k >= 0 audio messages for the active request,
\* then audio_end) the events are exactly Started, one AudioChunk per audio
\* message in arrival order carrying the decoding of its audio_content, then
\* Stopped; Started is there before the first recv.
C11_SuccessPathIsExact ==
    \A g \in Gens :
        LET h == heard[g]
            n == Len(h)
        IN  /\ (pc[g] = "receiving" \/ h # << >>) =>
                   (events[g] # << >> /\ events[g][1] = TTSStartedFrame)
            /\ (sent[g] # << >> /\ \A i \in 1..n : C11_IsAudio(h[i])) =>
                   events[g] = <<TTSStartedFrame>> \o C11_Chunks(h)
            /\ (n >= 1 /\ C11_IsEnd(h[n]) /\ \A i \in 1..(n - 1) : C11_IsAudio(h[i])) =>
                   events[g] = <<TTSStartedFrame>> \o C11_Chunks(SubSeq(h, 1, n - 1))
                                   \o <<TTSStoppedFrame>>

C11_Witness ==
    \E g \in Gens :
        /\ pc[g] = "done"
        /\ Len(heard[g]) = 3
        /\ heard[g][1].msg.audio_content = <<16, 16, Pad, Pad>>
        /\ heard[g][2].msg.audio_content = <<16, 20, 8, Pad>>
        /\ C11_IsEnd(heard[g][3])
        /\ events[g] = <<TTSStartedFrame, TTSAudioRawFrame(<<65>>),
                         TTSAudioRawFrame(<<65, 66>>), TTSStoppedFrame>>

C12_IsClosed(e) == e.msg.json = "closed"

\* C12: when the connection drops in the receive loop after k >= 0 audio
\* messages of the active request, the events are exactly Started, the k
\* AudioChunks in arrival order, then one Failed with the fixed text for a
\* closed connection; nothing is received and no event follows after it.
C12_DropKeepsAudioThenFailed ==
    \A g \in Gens :
        LET h == heard[g]
            n == Len(h)
        IN  /\ \A i \in 1..n : C12_IsClosed(h[i]) => i = n
            /\ (n >= 1 /\ C12_IsClosed(h[n]) /\ \A i \in 1..(n - 1) : C11_IsAudio(h[i])) =>
                   /\ events[g] = <<TTSStartedFrame>> \o C11_Chunks(SubSeq(h, 1, n - 1))
                                     \o <<ErrorFrame("Connection closed unexpectedly")>>
                   /\ pc[g] \in {"yielded", "abandoned", "done"}

C12_Witness ==
    \E g \in Gens :
        /\ pc[g] = "done"
        /\ Len(heard[g]) = 2 /\ C11_IsAudio(heard[g][1]) /\ C12_IsClosed(heard[g][2])
        /\ events[g] = <<TTSStartedFrame, TTSAudioRawFrame(<<65>>),
                         ErrorFrame("Connection closed unexpectedly")>>

\* a terminating message (audio_end or error) carrying request id rid
C13_Terminating(m, rid) ==
    /\ m.json = "dict" /\ GetRequestId(m) = rid
    /\ Has(m, "type") /\ m.type \in {"audio_end", "error"}

\* C13 as stated: an invocation cannot stay in its receive loop once the
\* transport has delivered a terminating message (audio_end or error) for
\* the request it sent: the step that receives it produces the terminal
\* event, and the next pull ends the invocation.
C13_TerminatingMessageEnds ==
    [][\A g \in Gens : Stepped(g) =>
        \A m \in Messages, w \in BOOLEAN :
          (C13_Terminating(m, request[g]) /\ Received(g, m, w))
          => /\ pc'[g] = "yielded"
             /\ Terminal(Last(events'[g]))
             /\ AfterYield(at'[g]).kind = "return"]_vars

C14_OtherType(m) ==
    ForActive(m) /\ Has(m, "type") /\ m.type \notin {"audio", "audio_end", "error"}

C14_Continues(g) ==
    /\ events' = events
    /\ heard' = heard
    /\ sink' = sink
    /\ raised' = raised
    /\ request_id' = request_id
    /\ conns' = conns
    /\ pc'[g] = "receiving" /\ io'[g] = websocket

\* C14: in the receive loop a message for the active request whose type is
\* none of audio, audio_end, error is non-fatal: no event, nothing written,
\* the sequence does not end and the loop waits for the next message of
\* self._websocket.
C14_OtherTypeIsNonFatal ==
    [][\A g \in Gens : Stepped(g) =>
        (C14_Continues(g)
         \/ ~\E m \in {data'[g]} \cap Messages, w \in BOOLEAN :
                C14_OtherType(m) /\ Received(g, m, w))]_vars

C14_Witness ==
    \E g \in Gens :
        /\ pc[g] = "receiving"
        /\ events[g] = <<TTSStartedFrame, TTSAudioRawFrame(<<65>>)>>
        /\ ForActive(data[g]) /\ Has(data[g], "type") /\ data[g].type = "ping"

\* a message that cannot be handled: no JSON, JSON that is no object, or
\* an object for the active request without its type or without a
\* decodable audio_content
C15_Unparseable(m) == m.json \in {"invalid", "list"}

C15_Malformed(m) ==
    \/ C15_Unparseable(m)
    \/ /\ ForActive(m)
       /\ \/ ~Has(m, "type")
          \/ m.type = "audio" /\ ~Has(m, "audio_content")
          \/ m.type = "audio" /\ m.audio_content = <<16, 65, 16>>

\* str(e) of the exception the message raises
C15_ErrorText(m) ==
    CASE m.json = "invalid" -> "Expecting value: line 1 column 1 (char 0)"
      [] m.json = "list" -> "'list' object has no attribute 'get'"
      [] ~Has(m, "type") -> "'type'"
      [] ~Has(m, "audio_content") -> "'audio_content'"
      [] OTHER -> "Incorrect padding"

\* C15 as stated: an unparseable message received in the receive loop is
\* ignored: no event, the attempt does not end and the loop waits for the
\* next message.
C15_UnparseableIsIgnored ==
    [][\A g \in Gens : Stepped(g) =>
        ((events'[g] = events[g] /\ pc'[g] = "receiving")
         \/ ~\E m \in {data'[g]} \cap Messages, w \in BOOLEAN :
                C15_Unparseable(m) /\ Received(g, m, w))]_vars

C15_Fails(g, m) ==
    /\ events'[g] = Append(events[g], ErrorFrame(C15_ErrorText(m)))
    /\ pc'[g] = "yielded" /\ AfterYield(at'[g]).kind = "return"
    /\ sink' = sink
    /\ raised' = raised

\* C15 amended: in run_tts an unparseable or malformed message is a
\* failure: the step appends one Failed event carrying the text of the
\* exception, nothing is written, and the attempt ends at the next pull
\* without reading another message.
C15_MalformedFailsAttempt ==
    [][\A g \in Gens : Stepped(g) =>
        \A m \in {data'[g]} \cap Messages :
            C15_Fails(g, m)
            \/ ~(C15_Malformed(m) /\ \E w \in BOOLEAN : Received(g, m, w))]_vars

C15_Witness ==
    \E g, h \in Gens :
        /\ pc[g] = "yielded" /\ data[g].json = "invalid"
        /\ events[g] = <<TTSStartedFrame, TTSAudioRawFrame(<<65>>),
                         ErrorFrame("Expecting value: line 1 column 1 (char 0)")>>
        /\ pc[h] = "done"
        /\ events[h] = <<TTSStartedFrame, ErrorFrame("'type'")>>

C16_IsChunk(f) == f.kind = "AudioChunk"

\* the payloads of the AudioChunk events generator g has emitted so far
C16_Payloads(g) ==
    LET a == SelectSeq(events[g], C16_IsChunk)
    IN  [i \in 1..Len(a) |-> a[i].audio]

\* s is an interleaving of the sequences q[g]
RECURSIVE C16_IsMerge(_, _)
C16_IsMerge(s, q) ==
    IF s = << >>
    THEN \A g \in DOMAIN q : q[g] = << >>
    ELSE \E g \in DOMAIN q :
            /\ q[g] # << >> /\ q[g][1] = s[1]
            /\ C16_IsMerge(Tail(s), [q EXCEPT ![g] = Tail(@)])

\* C16: each chunk is written to the playback sink in the step that emits
\* its AudioChunk event: at every point the payloads written to the sink
\* are the AudioChunk payloads emitted so far, each invocation's in its
\* order of emission; discarded and non-audio messages write nothing.
C16_SinkIsEmittedAudio ==
    C16_IsMerge(sink, [g \in Gens |-> C16_Payloads(g)])

C16_Witness ==
    \E g \in Gens :
        /\ pc[g] = "receiving"
        /\ events[g] = <<TTSStartedFrame, TTSAudioRawFrame(<<65>>),
                         TTSAudioRawFrame(<<65, 66>>)>>
        /\ sink = << <<65>>, <<65, 66>> >>
        /\ data[g].json = "dict" /\ data[g].keys = {"request_id"}
        /\ data[g].request_id # request_id

\* C17 as stated: the id an invocation compares inbound messages against
\* is the id it captured and sent in its own request, for the whole of its
\* receive loop, whatever other invocations of the session do meanwhile.
C17_ComparesAgainstOwnId ==
    \A g \in Gens : pc[g] = "receiving" => request_id = request[g]

C18_IsEnd(m) == m.json = "dict" /\ Has(m, "type") /\ m.type = "audio_end"

C18_IsAudio(m) ==
    /\ m.json = "dict" /\ Has(m, "type") /\ m.type = "audio"
    /\ Has(m, "audio_content")
    /\ m.audio_content \in {<<16, 16, Pad, Pad>>, <<16, 20, 8, Pad>>}

\* C18: in listen a round goes back to the prompt (through the ping of the
\* outer loop) if and only if the message just received is audio_end; a
\* decodable audio message is appended to the stream unless the write
\* fails; no message of any other kind (error, unknown type, no type, no
\* JSON) ends the round, and only a closed connection ends the program.
C18_RoundEndsIffAudioEnd ==
    /\ []((listen.pc \in {"pinging", "prompt"} /\ listen.round >= 1)
            => C18_IsEnd(listen.data))
    /\ [][listen.pc = "receiving" =>
            LET m == listen'.data
            IN  /\ listen'.pc = "pinging" <=> C18_IsEnd(m)
                /\ listen'.pc = "raised" <=> m = RecvClosedMark
                /\ listen'.pc \in {"pinging", "raised", "receiving"}
                /\ listen'.round = listen.round
                /\ listen'.stream =
                      IF C18_IsAudio(m) /\ ~listen'.wrfail
                      THEN Append(listen.stream, C11_Bytes(m.audio_content))
                      ELSE listen.stream]_vars

C18_Witness ==
    /\ listen.pc = "prompt" /\ listen.round = 2
    /\ C18_IsEnd(listen.data)
    /\ listen.stream = << <<65>>, <<65, 66>> >>

====
